---- MODULE Spec2Model ----
(***************************************************************************)
(* A model of moonar_lander (src/src/main.rs): the Lander's per-frame      *)
(* update (heading steps gated by a cooldown, gravity, thrust, Euler       *)
(* integration) and Moonar's terrain generation.                           *)
(*                                                                         *)
(* Units.  A Duration is a whole number of milliseconds.  The f32          *)
(* quantities are fixed-point integers: a velocity component is in         *)
(* 1/1000 px/s, a coordinate in 1/1000000 px, so that                      *)
(* velocity * milliseconds is a coordinate difference with no rounding.    *)
(* sin and cos are tabulated to three decimals.                            *)
(* A u32 is a pair <<hi, lo>> of 16-bit limbs (value hi * 65536 + lo).     *)
(***************************************************************************)
EXTENDS Integers, Sequences, FiniteSets

VARIABLES
    lander,      \* Moonar::lander : [dir, turn_cooldown, coordinates, velocity]
    heightmap,   \* Moonar::heightmap : sequence of u32
    score,       \* Moonar::score
    delta,       \* ctx: timer::delta(ctx) of the latest frame (ms)
    keys,        \* ctx: the keys held in the latest frame
    gen,         \* generate_heightmap's locals: [rng, last, vector]
    frames,      \* number of update calls so far
    elapsed,     \* sum of the frames' elapsed times (ms)
    turns,       \* number of heading steps taken so far
    since_turn,  \* elapsed time since the latest heading step, -1 before the first
    gap          \* time between the two latest heading steps, -1 before the second

vars == <<lander, heightmap, score, delta, keys, gen, frames, elapsed, turns,
          since_turn, gap>>

----------------------------------------------------------------------------
(* Bounds of the model *)

MaxFrames == 2

MaxSeedLen == 2

DeltaSet == {0, 16, 93, 1000}

HoldDeltaSet == {1, 8, 10, 16, 20, 50, 93, 100}

----------------------------------------------------------------------------
(* Constants of the program *)

MOON_G == <<0, 8>>

THRUSTER == <<50, 0>>

FULL_TURN_MILLIS == 3000

dir_count == 32

TURN_TIME == FULL_TURN_MILLIS \div dir_count

KeyCodes == {"Up", "Down", "Left", "Right", "Space"}

----------------------------------------------------------------------------
(* Integer casts *)

AsU8Saturating(n) == IF n < 0 THEN 0 ELSE IF n > 255 THEN 255 ELSE n

AsU8(n) == n % 256

AsI8(n) == ((n + 128) % 256) - 128

----------------------------------------------------------------------------
(* Lander *)

LanderDefault ==
    [dir |-> 0, turn_cooldown |-> 0,
     coordinates |-> <<100 * 1000000, 100 * 1000000>>,
     velocity |-> <<0, 0>>]

SetDirNoModulo(l, d) == [l EXCEPT !.dir = d]

\* fn dir(&mut self, d: u8)
SetDir(l, d) == [l EXCEPT !.dir = d % dir_count]

TurnDueAlways(l, dt) == TRUE

\* whether change_dir takes the turn
TurnDue(l, dt) == l.turn_cooldown <= dt

\* fn change_dir(&mut self, d: i8, delta: Duration)
change_dir(l, d, dt) ==
    IF TurnDue(l, dt)
    THEN SetDir([l EXCEPT !.turn_cooldown = TURN_TIME], AsU8(AsI8(l.dir) + d))
    ELSE l

\* the closure apply_change of update
apply_change(l, key, K, dt) ==
    IF key \in K
    THEN change_dir(l, (CASE key = "Left" -> -1 [] key = "Right" -> 1 [] OTHER -> 0), dt)
    ELSE l

CooldownAfterUnclamped(cd, dt) == cd - dt

\* turn_cooldown.checked_sub(delta).unwrap_or(0)
CooldownAfter(cd, dt) == IF cd >= dt THEN cd - dt ELSE 0

\* std::f32::consts::FRAC_PI_8, in units of pi/16
FRAC_PI_8 == 2

\* fn angle(&self) -> D, in units of pi/16 (a full revolution is 32 units)
angle(l) == FRAC_PI_8 * l.dir

\* cos and sin of k * pi/8, times 1000
Cos1000(k) ==
    CASE k % 16 = 0 -> 1000 [] k % 16 = 1 -> 924 [] k % 16 = 2 -> 707
      [] k % 16 = 3 -> 383 [] k % 16 = 4 -> 0 [] k % 16 = 5 -> -383
      [] k % 16 = 6 -> -707 [] k % 16 = 7 -> -924 [] k % 16 = 8 -> -1000
      [] k % 16 = 9 -> -924 [] k % 16 = 10 -> -707 [] k % 16 = 11 -> -383
      [] k % 16 = 12 -> 0 [] k % 16 = 13 -> 383 [] k % 16 = 14 -> 707
      [] OTHER -> 924

Sin1000(k) == Cos1000(k + 12)

\* a / b rounded to the nearest integer, halves away from zero (b > 0)
RoundDiv(a, b) == IF a >= 0 THEN (2 * a + b) \div (2 * b) ELSE -((2 * (-a) + b) \div (2 * b))

\* Force::to_velocity(d), in 1/1000 px/s, d in ms
to_velocity(f, d) == <<f[1] * d, f[2] * d>>

\* Force::per_second()
per_second(f) == to_velocity(f, 1000)

\* Vector::scale(delta_seconds), delta_seconds being dt / 1000
ScaleSeconds(v, dt) == <<RoundDiv(v[1] * dt, 1000), RoundDiv(v[2] * dt, 1000)>>

RotateSwapped(dir, v) ==
    <<RoundDiv(Sin1000(dir) * v[1] - Cos1000(dir) * v[2], 1000),
      RoundDiv(Cos1000(dir) * v[1] + Sin1000(dir) * v[2], 1000)>>

\* Rotation2::new(angle()) * v, the heading being dir * pi/8
Rotate(dir, v) ==
    <<RoundDiv(Cos1000(dir) * v[1] - Sin1000(dir) * v[2], 1000),
      RoundDiv(Sin1000(dir) * v[1] + Cos1000(dir) * v[2], 1000)>>

ThrustHeldOrDown(K) == "Space" \in K \/ "Up" \in K \/ "Down" \in K

\* is_key_pressed(Space) || is_key_pressed(Up)
ThrustHeld(K) == "Space" \in K \/ "Up" \in K

\* the thrust term of delta_v
ThrustTerm(l, K, dt) ==
    IF ThrustHeld(K) THEN Rotate(l.dir, ScaleSeconds(per_second(THRUSTER), dt)) ELSE <<0, 0>>

\* delta_v of update
DeltaV(l, K, dt) ==
    <<ScaleSeconds(per_second(MOON_G), dt)[1] + ThrustTerm(l, K, dt)[1],
      ScaleSeconds(per_second(MOON_G), dt)[2] + ThrustTerm(l, K, dt)[2]>>

IntegrateOldVelocity(l, dv, dt) ==
    [l EXCEPT !.velocity = <<l.velocity[1] + dv[1], l.velocity[2] + dv[2]>>,
              !.coordinates = <<l.coordinates[1] + l.velocity[1] * dt,
                                l.coordinates[2] + l.velocity[2] * dt>>]

\* velocity += delta_v; coordinates += velocity.scale(delta_seconds)
Integrate(l, dv, dt) ==
    LET v == <<l.velocity[1] + dv[1], l.velocity[2] + dv[2]>>
    IN  [l EXCEPT !.velocity = v,
                  !.coordinates = <<l.coordinates[1] + v[1] * dt,
                                    l.coordinates[2] + v[2] * dt>>]

TurnedRightFirst(l, K, dt) ==
    LET a == apply_change(l, "Right", K, dt)
        b == apply_change(a, "Left", K, dt)
    IN  [b EXCEPT !.turn_cooldown = CooldownAfter(b.turn_cooldown, dt)]

\* the heading part of update: apply_change(Left); apply_change(Right); cooldown
Turned(l, K, dt) ==
    LET a == apply_change(l, "Left", K, dt)
        b == apply_change(a, "Right", K, dt)
    IN  [b EXCEPT !.turn_cooldown = CooldownAfter(b.turn_cooldown, dt)]

LanderUpdateOldHeading(l, K, dt) ==
    Integrate(Turned(l, K, dt), DeltaV(l, K, dt), dt)

\* Lander::update as a function of the lander, the held keys and the elapsed time
LanderUpdate(l, K, dt) ==
    LET t == Turned(l, K, dt)
    IN  Integrate(t, DeltaV(t, K, dt), dt)

\* number of heading steps update takes in one frame
TurnsIn(l, K, dt) ==
    LET a == apply_change(l, "Left", K, dt)
    IN  (IF "Left" \in K /\ TurnDue(l, dt) THEN 1 ELSE 0)
      + (IF "Right" \in K /\ TurnDue(a, dt) THEN 1 ELSE 0)

----------------------------------------------------------------------------
(* 32-bit integers *)

MaxI32 == 2147483647

MinI32 == -2147483647 - 1

U32FromI32Saturating(n) == IF n < 0 THEN <<0, 0>> ELSE <<n \div 65536, n % 65536>>

\* n as u32, n an i32: the two's complement bit pattern, as limbs
U32FromI32(n) == <<(n \div 65536) % 65536, n % 65536>>

\* u as i32, u a u32
I32FromU32(u) ==
    IF u[1] < 32768 THEN u[1] * 65536 + u[2] ELSE (u[1] - 65536) * 65536 + u[2]

\* the u32 of a constant 0 <= n < 2^31
U32Of(n) == <<n \div 65536, n % 65536>>

IsU32(u) == u[1] \in 0..65535 /\ u[2] \in 0..65535

U32Le(a, b) == a[1] < b[1] \/ (a[1] = b[1] /\ a[2] <= b[2])

U32Min(a, b) == IF U32Le(a, b) THEN a ELSE b

\* u32::max
U32Max(a, b) == IF U32Le(a, b) THEN b ELSE a

\* i32 % i32 of Rust (the remainder takes the sign of the dividend), b > 0
RemI32(a, b) == IF a >= 0 \/ a % b = 0 THEN a % b ELSE (a % b) - b

CheckedAddWrapping(a, b, d) ==
    IF b >= 0 /\ a > MaxI32 - b THEN ((a - MaxI32) + b - MaxI32) - 2
    ELSE IF b < 0 /\ a < MinI32 - b THEN ((a + MaxI32) + b + MaxI32) + 2
    ELSE a + b

\* a.checked_add(b).unwrap_or(d)
CheckedAddOr(a, b, d) ==
    IF (b >= 0 /\ a > MaxI32 - b) \/ (b < 0 /\ a < MinI32 - b) THEN d ELSE a + b

----------------------------------------------------------------------------
(* Moonar: terrain *)

max_height == 120

max_degree == 80

map_length == 50

\* the random draws the model takes: i32 values
DrawSet == {MinI32, -81, -5, 0, 30, 79, MaxI32}

\* a generator that yields its draws in turn, over and over
Seeds == UNION {[1..n -> DrawSet] : n \in 1..MaxSeedLen}

\* rng.gen::<i32>()
RngGen(r) == r.draws[r.pos]

RngAdvance(r) == [r EXCEPT !.pos = (r.pos % Len(r.draws)) + 1]

\* the locals of generate_heightmap before the loop
GenStart(seed) ==
    [rng |-> [draws |-> seed, pos |-> 1], last |-> U32Of(0), vector |-> <<>>]

GenContinueShort(g) == Len(g.vector) < map_length

\* for _ in 0..=Self::map_length()
GenContinue(g) == Len(g.vector) <= map_length

\* the running total after the step, before the clamp
GenNext(g) ==
    CheckedAddOr(I32FromU32(g.last), RemI32(RngGen(g.rng), max_degree), 10)

ClampMin(u) == U32Min(u, U32Of(max_height))

\* (next as u32).max(Self::max_height())
Clamp(u) == U32Max(u, U32Of(max_height))

\* one iteration of the loop
GenStep(g) ==
    LET last == Clamp(U32FromI32(GenNext(g)))
    IN  [rng |-> RngAdvance(g.rng), last |-> last, vector |-> Append(g.vector, last)]

RECURSIVE GenLoop(_)
GenLoop(g) == IF GenContinue(g) THEN GenLoop(GenStep(g)) ELSE g

\* fn generate_heightmap() -> LinkedList<u32>
generate_heightmap(seed) == GenLoop(GenStart(seed)).vector

----------------------------------------------------------------------------
(* The game: Moonar::default(), then one Moonar::update per frame *)

MainSeeds == {<<-5, 30>>}

Init ==
    /\ \E seed \in MainSeeds :
          /\ gen = GenLoop(GenStart(seed))
          /\ heightmap = generate_heightmap(seed)
    /\ lander = LanderDefault
    /\ score = 0
    /\ delta = 0
    /\ keys = {}
    /\ frames = 0
    /\ elapsed = 0
    /\ turns = 0
    /\ since_turn = -1
    /\ gap = -1

FrameRegenerating(dt, K) ==
    LET n == TurnsIn(lander, K, dt)
    IN  /\ lander' = LanderUpdate(lander, K, dt)
        /\ delta' = dt
        /\ keys' = K
        /\ frames' = frames + 1
        /\ elapsed' = elapsed + dt
        /\ turns' = turns + n
        /\ since_turn' = IF n > 0 THEN 0
                         ELSE IF since_turn = -1 THEN -1 ELSE since_turn + dt
        /\ gap' = IF n = 2 THEN 0
                  ELSE IF n = 1 /\ since_turn >= 0 THEN since_turn + dt
                  ELSE gap
        /\ heightmap' = generate_heightmap(<<30>>)
        /\ UNCHANGED <<score, gen>>

\* Moonar::update with elapsed time dt and held keys K
Frame(dt, K) ==
    LET n == TurnsIn(lander, K, dt)
    IN  /\ lander' = LanderUpdate(lander, K, dt)
        /\ delta' = dt
        /\ keys' = K
        /\ frames' = frames + 1
        /\ elapsed' = elapsed + dt
        /\ turns' = turns + n
        /\ since_turn' = IF n > 0 THEN 0
                         ELSE IF since_turn = -1 THEN -1 ELSE since_turn + dt
        /\ gap' = IF n = 2 THEN 0
                  ELSE IF n = 1 /\ since_turn >= 0 THEN since_turn + dt
                  ELSE gap
        /\ UNCHANGED <<heightmap, score, gen>>

Update ==
    /\ frames < MaxFrames
    /\ \E dt \in DeltaSet, K \in SUBSET KeyCodes : Frame(dt, K)

Next == Update

Spec == Init /\ [][Next]_vars

----------------------------------------------------------------------------
(* Holding the same keys over frames of one length, for FULL_TURN_MILLIS *)

HoldKeySets == {{"Right"}, {"Left"}, {"Left", "Right"}}

InitHold ==
    /\ \E seed \in MainSeeds :
          /\ gen = GenLoop(GenStart(seed))
          /\ heightmap = generate_heightmap(seed)
    /\ lander = LanderDefault
    /\ score = 0
    /\ delta \in HoldDeltaSet
    /\ keys \in HoldKeySets
    /\ frames = 0
    /\ elapsed = 0
    /\ turns = 0
    /\ since_turn = -1
    /\ gap = -1

HoldFrame ==
    /\ elapsed + delta <= FULL_TURN_MILLIS
    /\ Frame(delta, keys)

NextHold == HoldFrame

SpecHold == InitHold /\ [][NextHold]_vars

----------------------------------------------------------------------------
(* change_dir alone: one call of the closure apply_change with its key held, *)
(* on a lander at any heading and with any cooldown                          *)

CooldownSet == {0, 16, 77, 93}

InitChangeDir ==
    /\ \E seed \in MainSeeds :
          /\ gen = GenLoop(GenStart(seed))
          /\ heightmap = generate_heightmap(seed)
    /\ \E i \in 0..(dir_count - 1), cd \in CooldownSet :
          lander = [LanderDefault EXCEPT !.dir = i, !.turn_cooldown = cd]
    /\ score = 0
    /\ delta \in DeltaSet
    /\ keys = {}
    /\ frames = 0
    /\ elapsed = 0
    /\ turns = 0
    /\ since_turn = -1
    /\ gap = -1

CallChangeDir ==
    /\ frames = 0
    /\ \E key \in {"Left", "Right"} :
          /\ lander' = apply_change(lander, key, {key}, delta)
          /\ keys' = {key}
    /\ frames' = 1
    /\ turns' = turns + (IF TurnDue(lander, delta) THEN 1 ELSE 0)
    /\ UNCHANGED <<heightmap, score, delta, gen, elapsed, since_turn, gap>>

NextChangeDir == CallChangeDir

SpecChangeDir == InitChangeDir /\ [][NextChangeDir]_vars

----------------------------------------------------------------------------
(* Terrain generation alone, one loop iteration per step *)

InitTerrain ==
    /\ \E seed \in Seeds : gen = GenStart(seed)
    /\ heightmap = <<>>
    /\ lander = LanderDefault
    /\ score = 0
    /\ delta = 0
    /\ keys = {}
    /\ frames = 0
    /\ elapsed = 0
    /\ turns = 0
    /\ since_turn = -1
    /\ gap = -1

\* one iteration; the last one returns the list, which Moonar::default stores
LoopIteration ==
    /\ GenContinue(gen)
    /\ gen' = GenStep(gen)
    /\ heightmap' = IF GenContinue(gen') THEN heightmap ELSE gen'.vector
    /\ UNCHANGED <<lander, score, delta, keys, frames, elapsed, turns, since_turn, gap>>

NextTerrain == LoopIteration

SpecTerrain == InitTerrain /\ [][NextTerrain]_vars

----------------------------------------------------------------------------
(* The loop of generate_heightmap as a function of the running total: the  *)
(* iterations from any u32 value of `last`, the ends of the i32 range      *)
(* included                                                                *)

LastSet == {<<0, 0>>, <<0, 4000>>, <<32767, 65535>>, <<32768, 0>>, <<65535, 65535>>}

GenStartAt(seed, u) ==
    [rng |-> [draws |-> seed, pos |-> 1], last |-> u, vector |-> <<>>]

InitLoopBody ==
    /\ \E seed \in Seeds, u \in LastSet : gen = GenStartAt(seed, u)
    /\ heightmap = <<>>
    /\ lander = LanderDefault
    /\ score = 0
    /\ delta = 0
    /\ keys = {}
    /\ frames = 0
    /\ elapsed = 0
    /\ turns = 0
    /\ since_turn = -1
    /\ gap = -1

NextLoopBody == LoopIteration

SpecLoopBody == InitLoopBody /\ [][NextLoopBody]_vars

----------------------------------------------------------------------------
(* Properties *)

\* a step of the model that is one update frame
IsFrame == frames' = frames + 1

TurnKeyHeld(K) == "Left" \in K \/ "Right" \in K

\* the gravity term of one frame of dt ms: (0, 8) px/s^2 * dt
GravityTerm(dt) == <<0, 8 * dt>>

VecAdd(a, b) == <<a[1] + b[1], a[2] + b[2]>>

\* C1: after any sequence of update frames the heading index is in 0..31.
C1_DirInRange == lander.dir \in 0..31

\* C1 witness: the first step taken was Left from heading 0, wrapping to 31.
C1_Witness == turns = 1 /\ lander.dir = 31

\* C2 (as claimed): with only Right held, frames totalling 3000 ms take exactly
\* 32 heading steps and bring the heading back to where it started.
C2_FullTurnIn3000 ==
    (keys = {"Right"} /\ elapsed = FULL_TURN_MILLIS)
        => (turns = 32 /\ lander.dir = 0)

\* C3 (as claimed): a frame with elapsed time 0 leaves the whole lander unchanged.
C3_ZeroFrameNoChange == [][(IsFrame /\ delta' = 0) => lander' = lander]_vars

\* C3 (amended): a frame with elapsed time 0 leaves velocity and coordinates
\* unchanged, and leaves heading and cooldown unchanged unless a turn key is
\* held while the cooldown is 0.
C3_ZeroFrame ==
    [][(IsFrame /\ delta' = 0) =>
          /\ lander'.velocity = lander.velocity
          /\ lander'.coordinates = lander.coordinates
          /\ (~TurnKeyHeld(keys') \/ lander.turn_cooldown > 0) => lander' = lander
      ]_vars

\* C3 witness: a zero-length second frame with Left and Space held while the
\* cooldown of the first frame's step is still running.
C3_Witness ==
    /\ frames = 2 /\ delta = 0 /\ {"Left", "Space"} \subseteq keys
    /\ lander.turn_cooldown = TURN_TIME - 16 /\ lander.dir = 31
    /\ lander.velocity # <<0, 0>>

\* C4 (as claimed): while one turn key is held, two consecutive heading steps
\* are at least TURN_TIME of elapsed time apart.
C4_StepsAtLeastTurnTimeApart ==
    (keys = {"Left"} \/ keys = {"Right"}) => (gap = -1 \/ gap >= TURN_TIME)

\* C5 (as claimed): in a frame where Space is not held the velocity changes by
\* the gravity term alone, whatever else is held.
C5_ThrustOnlyWithSpace ==
    [][(IsFrame /\ "Space" \notin keys') =>
          lander'.velocity = VecAdd(lander.velocity, GravityTerm(delta'))]_vars

\* C5 (amended): in a frame where neither Space nor Up is held the velocity
\* changes by the gravity term alone, whatever else is held.
C5_ThrustOnlyWithSpaceOrUp ==
    [][(IsFrame /\ "Space" \notin keys' /\ "Up" \notin keys') =>
          lander'.velocity = VecAdd(lander.velocity, GravityTerm(delta'))]_vars

\* C5 witness: a frame of 1000 ms with Down, Left and Right held and no thrust
\* key, after a frame with thrust.
C5_Witness ==
    /\ frames = 2 /\ delta = 1000 /\ keys = {"Down", "Left", "Right"}
    /\ lander.velocity[1] # 0

\* C6: with no key held, velocity' = velocity + (0, 8) * t, coordinates' =
\* coordinates + velocity' * t, and the heading is unchanged.
C6_FreeFall ==
    [][(IsFrame /\ keys' = {}) =>
          /\ lander'.velocity = VecAdd(lander.velocity, GravityTerm(delta'))
          /\ lander'.coordinates =
                <<lander.coordinates[1] + lander'.velocity[1] * delta',
                  lander.coordinates[2] + lander'.velocity[2] * delta'>>
          /\ lander'.dir = lander.dir
      ]_vars

\* C6 witness: a free-fall frame of 16 ms taken while the lander is already moving.
C6_Witness ==
    /\ frames = 2 /\ keys = {} /\ delta = 16
    /\ lander.velocity[1] # 0 /\ lander.velocity[2] > 8 * 16

\* C7: at heading 0 with Space held and no turn key, a frame of t seconds adds
\* (50 t, 0) of thrust on top of gravity's (0, 8 t).
C7_ThrustEast ==
    [][(IsFrame /\ lander.dir = 0 /\ "Space" \in keys' /\ ~TurnKeyHeld(keys')) =>
          lander'.velocity =
             VecAdd(lander.velocity, VecAdd(<<50 * delta', 0>>, GravityTerm(delta')))
      ]_vars

\* C7 witness: one second of thrust at heading 0 from rest gives (50, 8) px/s.
C7_Witness ==
    /\ frames = 1 /\ delta = 1000 /\ keys = {"Space"}
    /\ lander.dir = 0 /\ lander.velocity = <<50000, 8000>>

\* C8: the generated list has exactly map_length() + 1 = 51 samples, each a
\* non-negative integer of 32 bits.
C8_LengthAndRange ==
    /\ Len(gen.vector) <= 51
    /\ heightmap # <<>> => Len(heightmap) = 51
    /\ \A i \in 1..Len(heightmap) : IsU32(heightmap[i])
    /\ \A i \in 1..Len(gen.vector) : IsU32(gen.vector[i])

\* C8 witness: generation has returned, and a draw took the total below zero.
C8_Witness ==
    /\ Len(heightmap) = 51
    /\ \E i \in 1..51 : heightmap[i][1] >= 32768

\* C9: every sample is at least the floor max_height() = 120.
C9_AtLeastFloor ==
    \A i \in 1..Len(gen.vector) : U32Le(<<0, 120>>, gen.vector[i])

\* C9 witness: a finished list holding a sample clamped up to 120 after a
\* sample above it.
C9_Witness ==
    /\ ~GenContinue(gen)
    /\ \E i \in 2..51 : gen.vector[i] = <<0, 120>> /\ gen.vector[i - 1] = <<0, 150>>

\* C10 (as claimed): every sample equals the floor constant 120.
C10_AllAtFloor ==
    \A i \in 1..Len(gen.vector) : gen.vector[i] = <<0, 120>>

\* C10 (amended): a sample equals 120 exactly when the running total after the
\* step, as a signed integer, is in 0..120; every other sample is above 120.
C10_AtFloorIff ==
    [][(Len(gen'.vector) = Len(gen.vector) + 1) =>
          LET total == I32FromU32(gen.last) + RemI32(gen.rng.draws[gen.rng.pos], 80)
              sample == gen'.vector[Len(gen'.vector)]
          IN  /\ (sample = <<0, 120>>) <=> (total \in 0..120)
              /\ (sample # <<0, 120>>) =>
                    (sample[1] > 0 \/ sample[2] > 120)
      ]_vars

\* C10 witness: a first sample at the floor followed by a sample above it.
C10_Witness ==
    /\ Len(gen.vector) >= 2
    /\ gen.vector[1] = <<0, 120>> /\ gen.vector[2] = <<0, 150>>

\* whether two u32 values differ by less than n (n < 65536)
U32Within(a, b, n) ==
    \/ a[1] = b[1] /\ a[2] - b[2] < n /\ b[2] - a[2] < n
    \/ b[1] = a[1] + 1 /\ 65536 + b[2] - a[2] < n
    \/ a[1] = b[1] + 1 /\ 65536 + a[2] - b[2] < n

\* C11 (as claimed): the terrain is a bounded random walk: two consecutive
\* samples differ by less than max_degree = 80, and so do the first sample and
\* the floor, also when the running total goes negative.
C11_BoundedWalk ==
    /\ Len(gen.vector) >= 1 => U32Within(gen.vector[1], <<0, 120>>, 80)
    /\ \A i \in 2..Len(gen.vector) : U32Within(gen.vector[i - 1], gen.vector[i], 80)

\* C12: no update frame changes the heightmap or the score; they stay what
\* construction made them.
C12_TerrainAndScoreFixed ==
    [][IsFrame => (heightmap' = heightmap /\ score' = score)]_vars

\* C12 witness: two frames with turning and thrust have changed the lander,
\* and the generated 51-sample terrain and the score 0 are still there.
C12_Witness ==
    /\ frames = 2 /\ turns = 2 /\ lander.velocity[1] # 0
    /\ lander.coordinates # LanderDefault.coordinates
    /\ Len(heightmap) = 51 /\ heightmap = generate_heightmap(<<-5, 30>>)
    /\ score = 0

\* C13: every frame takes the elapsed time off the turn cooldown (off TURN_TIME
\* when the frame took a step) and clamps the result at zero, so that
\* 0 <= turn_cooldown <= TURN_TIME after every update.
C13_CooldownClamped ==
    [][IsFrame =>
          LET from == IF turns' > turns THEN 93 ELSE lander.turn_cooldown
          IN  /\ lander'.turn_cooldown \in 0..93
              /\ lander'.turn_cooldown = (IF from > delta' THEN from - delta' ELSE 0)
      ]_vars

\* C13 witness: a step in a 16 ms frame leaves 77 ms of cooldown, and a second
\* frame of 93 ms with no key held, longer than what remains, leaves exactly 0.
C13_Witness ==
    /\ frames = 2 /\ elapsed = 109 /\ delta = 93 /\ keys = {}
    /\ turns = 1 /\ since_turn = 93
    /\ lander.turn_cooldown = 0

\* C14 (as claimed): the 32 headings are 32 distinct orientations, so with
\* Right held the orientation (the angle modulo 2 pi, 32 units of pi/16) is
\* back at its start only after 32 steps, not after 1..31.
C14_FullCycleIsOneRevolution ==
    (keys = {"Right"} /\ turns \in 1..31)
        => (angle(lander) % 32 # angle(LanderDefault) % 32)

\* the thruster's 50 px/s^2 over dt ms along heading d
ThrustAlong(d, dt) ==
    <<RoundDiv(50 * dt * Cos1000(d), 1000), RoundDiv(50 * dt * Sin1000(d), 1000)>>

\* C15: in a frame that takes a turn while thrust is held, the thrust is along
\* the heading as updated in that frame, not along the heading before it.
C15_ThrustAlongNewHeading ==
    [][(IsFrame /\ turns' # turns /\ ("Space" \in keys' \/ "Up" \in keys')) =>
          /\ lander'.velocity =
                VecAdd(lander.velocity,
                       VecAdd(GravityTerm(delta'), ThrustAlong(lander'.dir, delta')))
          /\ (delta' > 0 /\ lander'.dir # lander.dir) =>
                lander'.velocity #
                   VecAdd(lander.velocity,
                          VecAdd(GravityTerm(delta'), ThrustAlong(lander.dir, delta')))
      ]_vars

\* C15 witness: a first frame of 16 ms with Right and Space held steps the
\* heading to 1 and thrusts along heading 1: 0.8 * (0.924, 0.383) px/s.
C15_Witness ==
    /\ frames = 1 /\ delta = 16 /\ keys = {"Right", "Space"}
    /\ turns = 1 /\ lander.dir = 1
    /\ lander.velocity = <<739, 128 + 306>>

\* C16: when the turn is due (turn_cooldown <= delta), change_dir with d = +1
\* takes heading i to (i + 1) mod 32 and with d = -1 to (i - 1) mod 32, for
\* every i in 0..31; when it is not due, heading and cooldown stay as they are.
C16_ChangeDirSteps ==
    [][(frames' = frames + 1) =>
          IF lander.turn_cooldown <= delta
          THEN lander'.dir = (IF keys' = {"Right"} THEN (lander.dir + 1) % 32
                              ELSE (lander.dir + 31) % 32)
          ELSE lander'.dir = lander.dir
               /\ lander'.turn_cooldown = lander.turn_cooldown
      ]_vars

\* C16 witness: a due call with d = -1 has ended at heading 31, which only
\* heading 0 reaches, through the i8 and u8 casts.
C16_Witness ==
    /\ frames = 1 /\ keys = {"Left"} /\ turns = 1
    /\ lander.dir = 31 /\ lander.turn_cooldown = 93

\* C17: generation never fails: every iteration appends one u32 sample and
\* the loop goes on to the full length, and if the signed addition of the step
\* overflows the total is replaced by 10, so that the sample is 120.
C17_OverflowFallsBack ==
    /\ [](GenContinue(gen) => ENABLED LoopIteration)
    /\ [](heightmap # <<>> => Len(heightmap) = 51)
    /\ [][LET a == I32FromU32(gen.last)
              r == RemI32(gen.rng.draws[gen.rng.pos], 80)
              overflow == \/ r > 0 /\ a > 2147483647 - r
                          \/ r < 0 /\ a < (-2147483647 - 1) - r
              sample == gen'.vector[Len(gen'.vector)]
          IN  /\ Len(gen'.vector) = Len(gen.vector) + 1
              /\ IsU32(sample)
              /\ gen'.last = sample
              /\ overflow => sample = <<0, 120>>
         ]_vars

\* C17 witness: from a running total of i32::MIN the first draw -5 overflows,
\* the first sample is 120, and the list is generated to its full length.
C17_Witness ==
    /\ gen.rng.draws = <<-5>>
    /\ gen.vector = GenLoop(GenStartAt(<<-5>>, <<32768, 0>>)).vector
    /\ Len(gen.vector) = 51 /\ heightmap = gen.vector
    /\ gen.vector[1] = <<0, 120>>

\* C18: one frame moves the heading by at most one step (-1, 0 or +1 modulo
\* 32) however long it is; and with Left and Right both held, a turn due and
\* an elapsed time below TURN_TIME, the heading goes down by one: Left's step
\* resets the cooldown, which blocks Right.
C18_OneStepPerFrame ==
    [][IsFrame =>
          /\ lander'.dir \in {lander.dir, (lander.dir + 1) % 32, (lander.dir + 31) % 32}
          /\ ({"Left", "Right"} \subseteq keys'
                /\ lander.turn_cooldown <= delta' /\ delta' < 93)
                => (lander'.dir = (lander.dir + 31) % 32 /\ turns' = turns + 1)
      ]_vars

\* C18 witness: a first frame of 1000 ms, more than ten cooldown periods,
\* with Right held has taken one step, 0 -> 1; a second frame of 16 ms with
\* Left and Right both held has taken Left's step alone, back to 0.
C18_Witness ==
    /\ frames = 2 /\ elapsed = 1016 /\ delta = 16 /\ keys = {"Left", "Right"}
    /\ turns = 2 /\ lander.dir = 0 /\ lander.turn_cooldown = 77

====
